---- MODULE Spec2Model ----
(***************************************************************************)
(* Model of landfill_opt.py: a script that builds a facility-location      *)
(* mixed-integer linear program with PuLP (objective, six demand           *)
(* constraints, four linking constraints), writes it to an .lp file,       *)
(* solves it once with the default solver and prints a report.             *)
(*                                                                         *)
(* The state is the position of the script (pc), the data tables it reads, *)
(* the LpProblem under construction (objective and constraint list as      *)
(* PuLP holds them: ordered term lists over the named variables), the      *)
(* solver's result and the printed output.                                 *)
(***************************************************************************)
EXTENDS Integers, Sequences, FiniteSets, TLC

VARIABLES pc, data, objective, constraints, ci, li, lpFile, solves,
          status, values, vlist, vi, out

vars == <<pc, data, objective, constraints, ci, li, lpFile, solves,
          status, values, vlist, vi, out>>

-----------------------------------------------------------------------------
(* PARAMETERS AND DATA                                                     *)

landfills == <<"L1", "L2", "L3", "L4">>

collection_areas == <<"A", "B", "C", "D", "E", "F">>

Landfills == {landfills[i] : i \in 1..Len(landfills)}

Areas == {collection_areas[i] : i \in 1..Len(collection_areas)}

landfills_fixed_cost == [L1 |-> 1000, L2 |-> 800, L3 |-> 700, L4 |-> 900]

landfills_op_cost == [L1 |-> 8, L2 |-> 10, L3 |-> 9, L4 |-> 11]

waste == [A |-> 500, B |-> 700, C |-> 1500, D |-> 1000, E |-> 1800, F |-> 1200]

costsMatrix ==
    << <<14, 12, 13, 10, 8, 11>>,
       <<16, 11, 8, 15, 12, 10>>,
       <<10, 12, 9, 14, 10, 8>>,
       <<8, 14, 11, 12, 11, 6>> >>

BigM == 9999

\* Index of an element in a sequence without repetitions.
IndexOf(seq, e) == CHOOSE i \in 1..Len(seq) : seq[i] = e

\* pulp.makeDict([landfills, collection_areas], costs, 0): the nested dictionary
\* keyed by the row header, then the column header.
makeDict(rows, cols, matrix) ==
    [l \in {rows[i] : i \in 1..Len(rows)} |->
        [c \in {cols[j] : j \in 1..Len(cols)} |->
            matrix[IndexOf(rows, l)][IndexOf(cols, c)]]]

costs == makeDict(landfills, collection_areas, costsMatrix)

\* routes = [(l, c) for l in landfills for c in collection_areas]
routes ==
    [k \in 1..(Len(landfills) * Len(collection_areas)) |->
        << landfills[((k - 1) \div Len(collection_areas)) + 1],
           collection_areas[((k - 1) % Len(collection_areas)) + 1] >>]

-----------------------------------------------------------------------------
(* The data tables the script reads.  The script's literals are Literal;   *)
(* the other instances change one table and leave the rest as written.     *)

Literal == [waste |-> waste, fixed_cost |-> landfills_fixed_cost, bigM |-> BigM]

ZeroDemand(c0) == [Literal EXCEPT !.waste[c0] = 0]

ZeroFixedCost == [Literal EXCEPT !.fixed_cost = [l \in Landfills |-> 0]]

SmallBigM(m) == [Literal EXCEPT !.bigM = m]

RECURSIVE SumSeq(_, _, _)
SumSeq(f, seq, k) == IF k = 0 THEN 0 ELSE f[seq[k]] + SumSeq(f, seq, k - 1)

TotalDemand(d) == SumSeq(d.waste, collection_areas, Len(collection_areas))

-----------------------------------------------------------------------------
(* DECISION VARIABLES.  The script creates the four Yes_or_No variables   *)
(* and then the 24 Route variables; a variable is identified by its        *)
(* position in that order, and VarName gives the name PuLP prints, kept as *)
(* the parts PuLP joins with "_": Yes_or_No_<l> and Route_<l>_<c>.         *)

NumSites == Len(landfills)

NumVars == NumSites + Len(routes)

landfill_yn(l) == IndexOf(landfills, l)

route_var(l, c) ==
    NumSites + (IndexOf(landfills, l) - 1) * Len(collection_areas)
             + IndexOf(collection_areas, c)

YesNoVars == 1..NumSites

RouteVars == (NumSites + 1)..NumVars

\* The landfill and the collection area of each variable.
VarSite == [v \in 1..NumVars |->
               IF v <= NumSites THEN landfills[v] ELSE routes[v - NumSites][1]]

VarArea == [v \in 1..NumVars |->
               IF v <= NumSites THEN "" ELSE routes[v - NumSites][2]]

VarName(v) ==
    <<IF v <= NumSites THEN "Yes_or_No" ELSE "Route", VarSite[v], VarArea[v]>>

-----------------------------------------------------------------------------
(* Linear expressions as PuLP's LpAffineExpression holds them: an ordered  *)
(* list of <<variable, coefficient>> terms, one per variable.              *)

\* The sum of the coefficients that the first k terms give the variable v.
RECURSIVE CoefSum(_, _, _)
CoefSum(terms, v, k) ==
    IF k = 0 THEN 0
    ELSE (IF terms[k][1] = v THEN terms[k][2] ELSE 0) + CoefSum(terms, v, k - 1)

\* Adding up a list of terms: one term per variable, in the order the
\* variables first appear, each with the sum of its coefficients.
Merge(terms) ==
    LET firsts == {i \in 1..Len(terms) :
                      \A j \in 1..(i - 1) : terms[j][1] # terms[i][1]}
        nth(k) == CHOOSE i \in firsts : Cardinality({j \in firsts : j < i}) = k - 1
    IN  [k \in 1..Cardinality(firsts) |->
            <<terms[nth(k)][1], CoefSum(terms, terms[nth(k)][1], Len(terms))>>]

\* pulp.lpSum over a list of terms.
lpSum(terms) == Merge(terms)

\* e + f for two expressions.
AddExpr(e, f) == Merge(e \o f)

\* e - f for two expressions.
SubExpr(e, f) == Merge(e \o [i \in 1..Len(f) |-> <<f[i][1], 0 - f[i][2]>>])

\* The value of an expression under an assignment x of the variables.
RECURSIVE EvalFrom(_, _, _)
EvalFrom(e, x, k) ==
    IF k = 0 THEN 0 ELSE e[k][2] * x[e[k][1]] + EvalFrom(e, x, k - 1)

Eval(e, x) == EvalFrom(e, x, Len(e))

-----------------------------------------------------------------------------
(* OBJECTIVE FUNCTION                                                      *)

TransportTerms == [k \in 1..Len(routes) |->
    <<route_var(routes[k][1], routes[k][2]), costs[routes[k][1]][routes[k][2]]>>]

\* The fixed-cost terms read from the operating-cost table.
FixedTermsFromOpCost(d) == [i \in 1..Len(landfills) |->
    <<landfill_yn(landfills[i]), landfills_op_cost[landfills[i]]>>]

FixedTerms(d) == [i \in 1..Len(landfills) |->
    <<landfill_yn(landfills[i]), d.fixed_cost[landfills[i]]>>]

OperatingTerms == [k \in 1..Len(routes) |->
    <<route_var(routes[k][1], routes[k][2]), landfills_op_cost[routes[k][1]]>>]

\* The objective with the fixed-cost sum left out.
Sum_of_CostsNoFixed(d) == AddExpr(lpSum(TransportTerms), lpSum(OperatingTerms))

\* The objective with the operating-cost sum left out.
Sum_of_CostsNoOperating(d) == AddExpr(lpSum(TransportTerms), lpSum(FixedTerms(d)))

Sum_of_Costs(d) ==
    AddExpr(AddExpr(lpSum(TransportTerms), lpSum(FixedTerms(d))),
            lpSum(OperatingTerms))

-----------------------------------------------------------------------------
(* CONSTRAINTS.  PuLP stores "lhs >= rhs" and "lhs <= rhs" as the          *)
(* expression lhs - rhs, a sense and the constant moved to the right.      *)

\* The demand constraint with the comparison turned round.
DemandConstraintAtMost(d, c) ==
    [name |-> <<"Sum_of_Tons_out_of_Collection_Area", c>>,
     expr |-> lpSum([i \in 1..Len(landfills) |-> <<route_var(landfills[i], c), 1>>]),
     sense |-> "<=",
     rhs |-> d.waste[c]]

DemandConstraint(d, c) ==
    [name |-> <<"Sum_of_Tons_out_of_Collection_Area", c>>,
     expr |-> lpSum([i \in 1..Len(landfills) |-> <<route_var(landfills[i], c), 1>>]),
     sense |-> ">=",
     rhs |-> d.waste[c]]

\* The linking constraint tied to the first landfill's switch whatever the site.
LinkingConstraintFirstSwitch(d, l) ==
    [name |-> <<"Linking_constraint_for_Landfill", l>>,
     expr |-> SubExpr(lpSum([j \in 1..Len(collection_areas) |->
                                <<route_var(l, collection_areas[j]), 1>>]),
                      <<<<landfill_yn(landfills[1]), d.bigM>>>>),
     sense |-> "<=",
     rhs |-> 0]

\* The linking constraint with a digit of the big-M dropped.
LinkingConstraintShortBigM(d, l) ==
    [name |-> <<"Linking_constraint_for_Landfill", l>>,
     expr |-> SubExpr(lpSum([j \in 1..Len(collection_areas) |->
                                <<route_var(l, collection_areas[j]), 1>>]),
                      <<<<landfill_yn(l), d.bigM \div 10>>>>),
     sense |-> "<=",
     rhs |-> 0]

\* The linking constraint without the switch: the big-M alone on the right.
LinkingConstraintNoSwitch(d, l) ==
    [name |-> <<"Linking_constraint_for_Landfill", l>>,
     expr |-> lpSum([j \in 1..Len(collection_areas) |->
                        <<route_var(l, collection_areas[j]), 1>>]),
     sense |-> "<=",
     rhs |-> d.bigM]

LinkingConstraint(d, l) ==
    [name |-> <<"Linking_constraint_for_Landfill", l>>,
     expr |-> SubExpr(lpSum([j \in 1..Len(collection_areas) |->
                                <<route_var(l, collection_areas[j]), 1>>]),
                      <<<<landfill_yn(l), d.bigM>>>>),
     sense |-> "<=",
     rhs |-> 0]

Satisfies(x, con) ==
    IF con.sense = ">=" THEN Eval(con.expr, x) >= con.rhs
                        ELSE Eval(con.expr, x) <= con.rhs

\* x respects the bounds and categories of the variables: Yes_or_No binary,
\* Route continuous with lower bound 0.
WithinBounds(x) ==
    /\ \A v \in YesNoVars : x[v] \in {0, 1}
    /\ \A v \in RouteVars : x[v] >= 0

Feasible(cons, x) ==
    /\ WithinBounds(x)
    /\ \A i \in 1..Len(cons) : Satisfies(x, cons[i])

-----------------------------------------------------------------------------
(* prob.variables(): the variables of the objective and the constraints,   *)
(* sorted by name.                                                         *)

\* The name parts in the order Python compares the joined names.
NameParts == <<"", "A", "B", "C", "D", "E", "F", "L1", "L2", "L3", "L4",
               "Route", "Yes_or_No">>

PartRank(s) == IndexOf(NameParts, s)

NameLess(n, m) ==
    \/ PartRank(n[1]) < PartRank(m[1])
    \/ /\ n[1] = m[1]
       /\ \/ PartRank(n[2]) < PartRank(m[2])
          \/ n[2] = m[2] /\ PartRank(n[3]) < PartRank(m[3])

VarsOfExpr(e) == {e[i][1] : i \in 1..Len(e)}

RECURSIVE SortByName(_)
SortByName(V) ==
    IF V = {} THEN <<>>
    ELSE LET first == CHOOSE v \in V : \A w \in V \ {v} : NameLess(VarName(v), VarName(w))
         IN  <<first>> \o SortByName(V \ {first})

\* The variables in the order the script creates them, not sorted by name.
variablesAsCreated(obj, cons) ==
    LET V == VarsOfExpr(obj) \cup UNION {VarsOfExpr(cons[i].expr) : i \in 1..Len(cons)}
    IN  [k \in 1..Cardinality(V) |->
            CHOOSE v \in V : Cardinality({w \in V : w < v}) = k - 1]

variables(obj, cons) ==
    SortByName(VarsOfExpr(obj) \cup
               UNION {VarsOfExpr(cons[i].expr) : i \in 1..Len(cons)})

-----------------------------------------------------------------------------
(* The solver.  prob.solve() hands the built problem to an external MILP   *)
(* solver.  It is modelled by what it returns: an assignment that is       *)
(* feasible for the built constraints and of least objective value among   *)
(* the candidate assignments Points(d), or Infeasible when none is         *)
(* feasible.  Every objective coefficient the script builds is             *)
(* non-negative and every variable is bounded below by 0, so a feasible    *)
(* problem is never unbounded.                                             *)

\* Largest number of tons by which a candidate moves one route's flow.
MaxShift == 1

\* Every area is served wholly from the site a[c]; exactly the sites of S open.
Plan(d, S, a) ==
    [v \in 1..NumVars |->
        IF v <= NumSites THEN (IF VarSite[v] \in S THEN 1 ELSE 0)
        ELSE IF a[VarArea[v]] = VarSite[v] THEN d.waste[VarArea[v]] ELSE 0]

\* Nothing open, nothing shipped.
Idle == [v \in 1..NumVars |-> 0]

Shifts == ((0 - MaxShift)..MaxShift) \ {0}

Used(a) == {a[c] : c \in Areas}

\* The pairs <<S, a>>, S the open sites and a the site serving each area, in
\* which every site used is open.
Servings ==
    {p \in (SUBSET Landfills) \X [Areas -> Landfills] : Used(p[2]) \subseteq p[1]}

\* The pairs in which the sites used are open but for one of them.
ClosedServings ==
    {<<Used(q[1]) \ {q[2]}, q[1]>> :
        q \in {r \in [Areas -> Landfills] \X Landfills : r[2] \in Used(r[1])}}

\* The pairs in which one site serves every area.
SingleSiteServings == {p \in Servings : Cardinality(Used(p[2])) = 1}

\* The plans: every area served by one site, the sites used all open or all
\* open but one.
Plans(d) == {Plan(d, p[1], p[2]) : p \in Servings \cup ClosedServings}

\* The neighbours of the single-site plans and of the idle assignment: one
\* route's flow moved by up to MaxShift tons.
Shifted(d) ==
    {[x EXCEPT ![r] = @ + k] :
        x \in {Plan(d, p[1], p[2]) : p \in SingleSiteServings} \cup {Idle},
        r \in RouteVars, k \in Shifts}

\* A single-site plan with a surplus on one route that brings the site's
\* total to within MaxShift tons of the big-M limit.
Loaded(d) ==
    LET spare == d.bigM - TotalDemand(d)
    IN  {[Plan(d, q[1][1], q[1][2]) EXCEPT ![route_var(q[1][2][q[2]], q[2])] = @ + spare + q[3]] :
            q \in SingleSiteServings \X Areas \X ((0 - MaxShift)..MaxShift)}

\* The probes: candidates next to a plan or on the big-M limit.
Probes(d) == Shifted(d) \cup Loaded(d) \cup {Idle}

\* The candidate assignments, as two families.
Points(d) == <<Plans(d), Probes(d)>>

\* <<objective value, assignment>> for the feasible candidates of a family.
Scored(obj, cons, P) == {<<Eval(obj, x), x>> : x \in {y \in P : Feasible(cons, y)}}

\* The least objective value of the scored candidates of the two families.
Least(scored) ==
    LET vals == {s[1] : s \in scored[1]} \cup {s[1] : s \in scored[2]}
    IN  CHOOSE m \in vals : \A n \in vals : m <= n

\* The optimal assignments of the problem among the candidates: empty when
\* no candidate is feasible.
Optimal(obj, cons, P) ==
    LET scored == <<Scored(obj, cons, P[1]), Scored(obj, cons, P[2])>>
    IN  IF scored[1] = {} /\ scored[2] = {} THEN {}
        ELSE LET m == Least(scored)
             IN  {s[2] : s \in {t \in scored[1] : t[1] = m}} \cup
                 {s[2] : s \in {t \in scored[2] : t[1] = m}}

\* A status table that calls every status Optimal.
LpStatusAlwaysOptimal(code) == "Optimal"

\* constants.LpStatus
LpStatus(code) ==
    CASE code = 0 -> "Not Solved"
      [] code = 1 -> "Optimal"
      [] code = 0 - 1 -> "Infeasible"
      [] code = 0 - 2 -> "Unbounded"
      [] code = 0 - 3 -> "Undefined"

\* What the variables may hold when the solver reports no solution: the
\* solver's last working assignment, which satisfies nothing in particular.
Leftover(d) == {Idle} \cup {Plan(d, Landfills, [c \in Areas |-> l]) : l \in Landfills}

-----------------------------------------------------------------------------
(* The script, top to bottom.                                              *)

\* Largest big-M with which even all four sites together cannot take the
\* total demand.
TooSmallBigM == (TotalDemand(Literal) - 1) \div Len(landfills)

Instances ==
    {Literal, ZeroFixedCost, SmallBigM(TooSmallBigM)} \cup {ZeroDemand(c) : c \in Areas}

NotWritten == [written |-> FALSE, objective |-> <<>>, constraints |-> <<>>]

Init ==
    /\ pc = "objective"
    /\ data \in Instances
    /\ objective = <<>>
    /\ constraints = <<>>
    /\ ci = 1
    /\ li = 1
    /\ lpFile = NotWritten
    /\ solves = 0
    /\ status = 0
    /\ values = <<>>
    /\ vlist = <<>>
    /\ vi = 1
    /\ out = <<>>

\* prob += (lpSum(...) + lpSum(...) + lpSum(...), "Sum_of_Costs")
AddObjective ==
    /\ pc = "objective"
    /\ objective' = Sum_of_Costs(data)
    /\ pc' = "demand"
    /\ UNCHANGED <<data, constraints, ci, li, lpFile, solves, status, values, vlist, vi, out>>

\* for c in collection_areas: prob += (lpSum(...) >= waste[c], name)
AddDemandConstraint ==
    /\ pc = "demand"
    /\ constraints' = Append(constraints, DemandConstraint(data, collection_areas[ci]))
    /\ IF ci = Len(collection_areas)
       THEN pc' = "linking" /\ ci' = ci
       ELSE pc' = pc /\ ci' = ci + 1
    /\ UNCHANGED <<data, objective, li, lpFile, solves, status, values, vlist, vi, out>>

\* for l in landfills: prob += (lpSum(...) <= landfill_yn[l] * 9999, name)
AddLinkingConstraint ==
    /\ pc = "linking"
    /\ constraints' = Append(constraints, LinkingConstraint(data, landfills[li]))
    /\ IF li = Len(landfills)
       THEN pc' = "writeLP" /\ li' = li
       ELSE pc' = pc /\ li' = li + 1
    /\ UNCHANGED <<data, objective, ci, lpFile, solves, status, values, vlist, vi, out>>

\* prob.writeLP("LandfillLocation.lp")
WriteLP ==
    /\ pc = "writeLP"
    /\ lpFile' = [written |-> TRUE, objective |-> objective, constraints |-> constraints]
    /\ pc' = "solve"
    /\ UNCHANGED <<data, objective, constraints, ci, li, solves, status, values, vlist, vi, out>>

\* prob.solve(): the solver is missing or fails, and PuLP raises; the script
\* ends with the exception and prints nothing.
SolveRaises ==
    /\ pc = "solve"
    /\ solves' = solves + 1
    /\ pc' = "error"
    /\ UNCHANGED <<data, objective, constraints, ci, li, lpFile, status, values, vlist, vi, out>>

\* prob.solve(): the solver returns; status and variable values are set.
SolveReturns ==
    /\ pc = "solve"
    /\ solves' = solves + 1
    /\ \E best \in {Optimal(objective, constraints, Points(data))} :
          IF best = {}
          THEN status' = 0 - 1 /\ values' \in Leftover(data)
          ELSE status' = 1 /\ values' \in best
    /\ pc' = "printStatus"
    /\ UNCHANGED <<data, objective, constraints, ci, li, lpFile, vlist, vi, out>>

\* print("Status:", pulp.LpStatus[prob.status]); print('\n'); then the for
\* statement evaluates prob.variables() once, before its first iteration.
PrintStatus ==
    /\ pc = "printStatus"
    /\ out' = out \o << <<"Status:", LpStatus(status)>>, <<"\n">> >>
    /\ vlist' = variables(objective, constraints)
    /\ vi' = 1
    /\ pc' = IF vlist' = <<>> THEN "printTotal" ELSE "printVars"
    /\ UNCHANGED <<data, objective, constraints, ci, li, lpFile, solves, status, values>>

\* for v in prob.variables(): print(v.name, "=", v.varValue)
PrintVariable ==
    /\ pc = "printVars"
    /\ out' = Append(out, <<VarName(vlist[vi]), "=", values[vlist[vi]]>>)
    /\ IF vi = Len(vlist)
       THEN pc' = "printTotal" /\ vi' = vi
       ELSE pc' = pc /\ vi' = vi + 1
    /\ UNCHANGED <<data, objective, constraints, ci, li, lpFile, solves, status, values, vlist>>

\* print('\n'); print("Total Cost of Transportation = ", pulp.value(prob.objective))
PrintTotal ==
    /\ pc = "printTotal"
    /\ out' = out \o << <<"\n">>,
                        <<"Total Cost of Transportation = ", Eval(objective, values)>> >>
    /\ pc' = "done"
    /\ UNCHANGED <<data, objective, constraints, ci, li, lpFile, solves, status, values, vlist, vi>>

Next ==
    \/ AddObjective
    \/ AddDemandConstraint
    \/ AddLinkingConstraint
    \/ WriteLP
    \/ SolveRaises
    \/ SolveReturns
    \/ PrintStatus
    \/ PrintVariable
    \/ PrintTotal

Spec == Init /\ [][Next]_vars

-----------------------------------------------------------------------------
(* Vocabulary of the properties.                                           *)

\* The variable of each route, by landfill and collection area.
RouteOf == [l \in Landfills |-> [c \in Areas |-> route_var(l, c)]]

YesNoOf == [l \in Landfills |-> landfill_yn(l)]

RECURSIVE TotalTo(_, _)
TotalTo(f, n) == IF n = 0 THEN 0 ELSE f[n] + TotalTo(f, n - 1)

\* Tons leaving area c, and tons arriving at landfill l, under x.
AreaTotal(x, c) ==
    TotalTo([i \in 1..Len(landfills) |-> x[RouteOf[landfills[i]][c]]], Len(landfills))

SiteTotal(x, l) ==
    TotalTo([j \in 1..Len(collection_areas) |-> x[RouteOf[l][collection_areas[j]]]],
            Len(collection_areas))

OpenSites(x) == {l \in Landfills : x[YesNoOf[l]] = 1}

\* The problem is complete and not yet handed to the solver.
Built == pc = "writeLP"

\* P holds of every candidate assignment.
EveryPoint(d, P(_)) == (\A x \in Plans(d) : P(x)) /\ (\A x \in Probes(d) : P(x))

\* The assignment with one variable at 1 and the others at 0, for each variable.
Basis == {[v \in 1..NumVars |-> IF v = u THEN 1 ELSE 0] : u \in 1..NumVars}

-----------------------------------------------------------------------------
\* C1: every assignment the built model admits as feasible, and so every
\* solution reported Optimal, ships out of each collection area at least the
\* area's waste; shipping more is allowed.
C1_DemandHolds(x) ==
    Feasible(constraints, x) => \A c \in Areas : AreaTotal(x, c) >= data.waste[c]

C1_DemandSatisfaction ==
    /\ (Built /\ data = Literal) => EveryPoint(data, C1_DemandHolds)
    /\ (status = 1) => \A c \in Areas : AreaTotal(values, c) >= data.waste[c]

\* The literal model is built and admits an assignment that over-supplies an
\* area, while the probe that ships one ton too little is refused.
C1_Witness ==
    /\ Built /\ data = Literal
    /\ \E x \in Probes(data) :
          Feasible(constraints, x) /\ \E c \in Areas : AreaTotal(x, c) > data.waste[c]
    /\ \E x \in Probes(data) :
          ~Feasible(constraints, x) /\ \E c \in Areas : AreaTotal(x, c) = data.waste[c] - 1

\* C2: in every feasible assignment of the built model, a landfill whose
\* Yes_or_No variable is 0 receives no flow from any area.
C2_LinkHolds(x) ==
    Feasible(constraints, x) =>
        \A l \in Landfills : x[YesNoOf[l]] = 0 => \A c \in Areas : x[RouteOf[l][c]] = 0

C2_FlowLinking ==
    /\ (Built /\ data = Literal) => EveryPoint(data, C2_LinkHolds)
    /\ (status = 1) =>
          \A l \in Landfills : values[YesNoOf[l]] = 0 => SiteTotal(values, l) = 0

\* The literal run ends with an optimal solution that keeps a site closed.
C2_Witness ==
    /\ pc = "done" /\ data = Literal /\ status = 1
    /\ \E l \in Landfills : values[YesNoOf[l]] = 0 /\ SiteTotal(values, l) = 0

\* C3: the objective the script builds evaluates, on every assignment, to
\* transport cost plus fixed cost plus operating cost, each route counted once
\* in the transport sum and once in the operating sum, the transport rate of
\* route (l, c) being row l, column c of the literal matrix.
DirectCost(d, x) ==
    TotalTo([i \in 1..Len(landfills) |->
                TotalTo([j \in 1..Len(collection_areas) |->
                            x[RouteOf[landfills[i]][collection_areas[j]]] * costsMatrix[i][j]],
                        Len(collection_areas))
                + d.fixed_cost[landfills[i]] * x[YesNoOf[landfills[i]]]
                + landfills_op_cost[landfills[i]] * SiteTotal(x, landfills[i])],
            Len(landfills))

C3_CostAgrees(x) == Eval(objective, x) = DirectCost(data, x)

C3_ObjectiveCorrect ==
    /\ Built => \A x \in Basis \cup Probes(data) : C3_CostAgrees(x)
    /\ (Built /\ data = Literal) => \A x \in Plans(data) : C3_CostAgrees(x)

\* The literal objective is built: 28 terms, and one ton on route L1-A costs
\* 14 for transport plus 8 for operating.
C3_Witness ==
    /\ Built /\ data = Literal
    /\ Len(objective) = NumVars
    /\ \E x \in Basis : x[RouteOf["L1"]["A"]] = 1 /\ Eval(objective, x) = 14 + 8

\* C4: with a big-M below the total demand, building fails before the solver
\* is invoked: the script never writes the model out nor calls the solver.
C4_BigMValidated ==
    (data.bigM < TotalDemand(data)) => (~lpFile.written /\ solves = 0)

-----------------------------------------------------------------------------
\* The model with no upper limit on an open site: the bounds and the demand
\* constraints as built, flow into a closed site forbidden, flow into an
\* open site unconstrained.
UncappedFeasible(x) ==
    /\ WithinBounds(x)
    /\ \A i \in 1..Len(collection_areas) : Satisfies(x, constraints[i])
    /\ \A l \in Landfills : x[YesNoOf[l]] = 0 => SiteTotal(x, l) = 0

CappedFeasible(x) == Feasible(constraints, x)

\* The objective values of the candidates that Ok admits.
CostsOf(d, Ok(_)) ==
    {Eval(objective, x) : x \in {y \in Plans(d) : Ok(y)}} \cup
    {Eval(objective, x) : x \in {y \in Probes(d) : Ok(y)}}

MinOf(S) == CHOOSE m \in S : \A n \in S : m <= n

\* C5: with big-M 9999 and a total demand of 6700 the limit of an open site
\* never binds: the built model has the same minimum cost as the model with
\* no limit on open sites, every non-empty set of open sites admits a
\* feasible assignment, and each site alone can take all 6700 tons.
C5_BigMNoRealCap ==
    (Built /\ data = Literal) =>
        /\ \E capped \in {CostsOf(data, CappedFeasible)} :
           \E uncapped \in {CostsOf(data, UncappedFeasible)} :
              capped # {} /\ MinOf(capped) = MinOf(uncapped)
        /\ \A S \in (SUBSET Landfills) \ {{}} :
              \E x \in Plans(data) : Feasible(constraints, x) /\ OpenSites(x) = S
        /\ \A l \in Landfills :
              /\ SiteTotal(Plan(data, {l}, [c \in Areas |-> l]), l) = TotalDemand(data)
              /\ Feasible(constraints, Plan(data, {l}, [c \in Areas |-> l]))

\* The literal model is built, and some candidate loads one open site beyond
\* 9999 tons: the uncapped model admits it, the built model refuses it.
C5_Witness ==
    /\ Built /\ data = Literal /\ TotalDemand(data) < data.bigM
    /\ \E x \in Loaded(data) : UncappedFeasible(x) /\ ~Feasible(constraints, x)

\* C6: the status line shows the status the solver returned.  Optimal is
\* printed only after the solver returned Optimal with a feasible assignment;
\* when the solver is missing or fails the run ends in the error outcome with
\* nothing printed; Infeasible is printed as Infeasible, not turned into an
\* error.
C6_HonestStatus ==
    /\ (out # <<>>) =>
          /\ solves = 1 /\ pc # "error"
          /\ out[1][1] = "Status:"
          /\ (out[1][2] = "Optimal") <=> (status = 1)
          /\ (out[1][2] = "Infeasible") <=> (status = 0 - 1)
          /\ (out[1][2] = "Unbounded") <=> (status = 0 - 2)
          /\ (out[1][2] = "Optimal") => Feasible(constraints, values)
    /\ (pc = "error") => (out = <<>> /\ status = 0 /\ ~ENABLED Next)
    /\ (status = 0 - 1 /\ pc = "done") => out[1] = <<"Status:", "Infeasible">>

\* A run on the instance no set of sites can serve ends with Infeasible
\* printed.
C6_Witness ==
    pc = "done" /\ status = 0 - 1 /\ out[1] = <<"Status:", "Infeasible">>

-----------------------------------------------------------------------------
\* The script's statements in program order.
Rank(p) ==
    CASE p = "objective" -> 1
      [] p = "demand" -> 2
      [] p = "linking" -> 3
      [] p = "writeLP" -> 4
      [] p = "solve" -> 5
      [] p = "printStatus" -> 6
      [] p = "printVars" -> 7
      [] p = "printTotal" -> 8
      [] p = "done" -> 9
      [] p = "error" -> 9

\* The lines of the report that show a variable.
VarLines == {i \in 1..Len(out) : Len(out[i]) = 3}

C7_Order ==
    \* the file holds the whole problem: objective over all 28 variables, the
    \* six demand and the four linking constraints
    /\ lpFile.written =>
          /\ lpFile.objective = objective /\ lpFile.constraints = constraints
          /\ Len(objective) = NumVars
          /\ Len(constraints) = Len(collection_areas) + Len(landfills)
          /\ Len(variables(objective, constraints)) = NumVars
    \* written before solved, solved once, solved before anything is printed
    /\ solves \in {0, 1}
    /\ (solves = 1) => lpFile.written
    /\ (solves = 1) <=> (Rank(pc) > Rank("solve"))
    /\ (out # <<>>) => (solves = 1 /\ out[1][1] = "Status:")
    \* the variable lines follow the status line, in increasing name order
    /\ \A i \in VarLines : i > 2 /\ i <= NumVars + 2 /\ out[i][3] = values[vlist[i - 2]]
    /\ \A i \in VarLines : \A j \in VarLines : i < j => NameLess(out[i][1], out[j][1])
    \* the finished report: status, the 28 variables once each, the total
    /\ (pc = "done") =>
          /\ Len(out) = NumVars + 4
          /\ VarLines = 3..(NumVars + 2)
          /\ {out[i][1] : i \in VarLines} = {VarName(v) : v \in 1..NumVars}
          /\ out[Len(out)] = <<"Total Cost of Transportation = ", Eval(objective, values)>>

C7_Step ==
    /\ Rank(pc') >= Rank(pc)
    /\ (pc' = pc) => (pc \in {"demand", "linking", "printVars"})
    /\ Len(out') >= Len(out) /\ SubSeq(out', 1, Len(out)) = out
    /\ lpFile.written => lpFile' = lpFile

\* C7: a run is one pass in program order: the problem is complete before it
\* is written, written before the one call of the solver, and the report
\* follows: status, each of the 28 variables once in name order, the total.
C7_PipelineOrder == [](C7_Order) /\ [][C7_Step]_vars

\* A finished run with the whole report printed.
C7_Witness ==
    /\ pc = "done" /\ data = Literal /\ solves = 1
    /\ Len(out) = NumVars + 4
    /\ out[3][1] = <<"Route", "L1", "A">>
    /\ out[NumVars + 2][1] = <<"Yes_or_No", "L4", "">>

-----------------------------------------------------------------------------
\* The constraints of the problem for the tables d, as the two loops add them.
ProblemConstraints(d) ==
    [i \in 1..(Len(collection_areas) + Len(landfills)) |->
        IF i <= Len(collection_areas)
        THEN DemandConstraint(d, collection_areas[i])
        ELSE LinkingConstraint(d, landfills[i - Len(collection_areas)])]

\* The problem of the unmodified instance and its optimal assignments.
LiteralObjective == Sum_of_Costs(Literal)

LiteralConstraints == ProblemConstraints(Literal)

LiteralPoints == Points(Literal)

LiteralOptima == Optimal(LiteralObjective, LiteralConstraints, LiteralPoints)

\* C8: with the demand of one area set to 0, that area's constraint holds
\* with zero flow, the problem is solved to optimality, and every optimal
\* flow of every other area equals the flow in the optimal solution of the
\* unmodified instance.
C8_ZeroDemand ==
    \A c0 \in Areas :
        (data = ZeroDemand(c0) /\ pc = "printStatus") =>
            /\ status = 1
            /\ Satisfies(Idle, constraints[IndexOf(collection_areas, c0)])
            /\ LiteralOptima # {}
            /\ \A y \in LiteralOptima : \A l \in Landfills : \A c \in Areas \ {c0} :
                  values[RouteOf[l][c]] = y[RouteOf[l][c]]

\* The instance with area E's demand at 0 is solved: E ships nothing and the
\* other areas ship what they ship in the unmodified optimum.
C8_Witness ==
    /\ data = ZeroDemand("E") /\ pc = "printStatus" /\ status = 1
    /\ AreaTotal(values, "E") = 0
    /\ AreaTotal(values, "C") = waste["C"]

\* C9: with every fixed cost 0 the problem stays feasible, and in every
\* optimal solution a site that receives flow is open.
C9_ZeroFixedCost ==
    (data = ZeroFixedCost /\ pc = "printStatus") =>
        /\ status = 1
        /\ \A l \in Landfills : SiteTotal(values, l) > 0 => values[YesNoOf[l]] = 1

\* An optimal solution of the zero-fixed-cost instance that uses a site, and
\* opens another it does not use.
C9_Witness ==
    /\ data = ZeroFixedCost /\ pc = "printStatus" /\ status = 1
    /\ \E l \in Landfills : SiteTotal(values, l) > 0 /\ values[YesNoOf[l]] = 1
    /\ \E l \in Landfills : SiteTotal(values, l) = 0 /\ values[YesNoOf[l]] = 1

\* L1 and L3 open; L1 takes B, D and E, L3 takes A, C and F.
OptimalPlan ==
    Plan(Literal, {"L1", "L3"},
         [A |-> "L3", B |-> "L1", C |-> "L3", D |-> "L1", E |-> "L1", F |-> "L3"])

\* C10: the literal instance is feasible and bounded, its minimum cost is
\* 119400, and the only assignment that attains it is OptimalPlan; every
\* run that solves it reports Optimal, that assignment and that value.
C10_UniqueOptimum ==
    (data = Literal /\ Rank(pc) > Rank("solve") /\ pc # "error") =>
        /\ status = 1
        /\ values = OptimalPlan
        /\ Eval(objective, values) = 119400
        /\ LiteralOptima = {OptimalPlan}
        /\ (pc = "done") =>
              out[Len(out)] = <<"Total Cost of Transportation = ", 119400>>

\* The literal run finished: L1 takes 3500 tons, L3 takes 3200, none over-supplied.
C10_Witness ==
    /\ data = Literal /\ pc = "done" /\ status = 1
    /\ SiteTotal(values, "L1") = 3500 /\ SiteTotal(values, "L3") = 3200
    /\ OpenSites(values) = {"L1", "L3"}

====
